---- MODULE Spec2Model ----
(***************************************************************************)
(* terminews (src/index.js): a command-line news client.  One process      *)
(* handles one command: fetch <source> [--limit], sources [--category],    *)
(* search <term>, or no command (help).  Each command starts a spinner,    *)
(* issues one axios request and runs a promise chain of then/catch         *)
(* handlers on its outcome.                                                *)
(*                                                                         *)
(* JavaScript values are modelled as follows.  Strings that the program    *)
(* converts (the --limit value, the search term) are sequences of          *)
(* one-character strings; other strings are TLA+ strings.  A number is     *)
(* Num(n) or NaN.  An optional value is Undefined or Some(v).  A console   *)
(* line is a sequence of strings (chalk colouring is dropped).             *)
(***************************************************************************)
EXTENDS Integers, Sequences, FiniteSets, TLC

VARIABLES pc, cmd, limit, args, spinner, requests, response, value,
          stdout, stderr, helpPrinted, unhandled

vars == <<pc, cmd, limit, args, spinner, requests, response, value,
          stdout, stderr, helpPrinted, unhandled>>

(* ------------------------------ bounds -------------------------------- *)

MaxLimitLen == 3
MaxItems == 2

(* --------------------------- JavaScript values ------------------------ *)

Undefined == [defined |-> FALSE]
Some(v) == [defined |-> TRUE, val |-> v]

NaN == [kind |-> "NaN", v |-> 0]
Num(n) == [kind |-> "num", v |-> n]

Digits == {"0", "1", "2", "3", "4", "5", "6", "7", "8", "9"}

DigitVal(c) ==
  CASE c = "0" -> 0 [] c = "1" -> 1 [] c = "2" -> 2 [] c = "3" -> 3
    [] c = "4" -> 4 [] c = "5" -> 5 [] c = "6" -> 6 [] c = "7" -> 7
    [] c = "8" -> 8 [] c = "9" -> 9

AllDigits(s) == \A i \in 1..Len(s) : s[i] \in Digits

RECURSIVE DigitsValue(_)
DigitsValue(s) ==
  IF s = <<>> THEN 0
  ELSE 10 * DigitsValue(SubSeq(s, 1, Len(s) - 1)) + DigitVal(s[Len(s)])

\* ToNumber of a string, as Math.min applies it to its arguments: the empty
\* string is 0, an optionally signed run of decimal digits is its value,
\* anything else is NaN.
StringToNumber(s) ==
  IF s = <<>> THEN Num(0)
  ELSE IF AllDigits(s) THEN Num(DigitsValue(s))
  ELSE IF Len(s) > 1 /\ s[1] = "+" /\ AllDigits(Tail(s))
    THEN Num(DigitsValue(Tail(s)))
  ELSE IF Len(s) > 1 /\ s[1] = "-" /\ AllDigits(Tail(s))
    THEN Num(0 - DigitsValue(Tail(s)))
  ELSE NaN

\* ToNumber of the option value: undefined converts to NaN.
ToNumber(opt) == IF opt.defined THEN StringToNumber(opt.val) ELSE NaN

MathMinUnclamped(a, b) ==
  IF a.kind = "NaN" \/ b.kind = "NaN" THEN NaN ELSE b

\* Math.min(a, b): NaN if either argument is NaN.
MathMin(a, b) ==
  IF a.kind = "NaN" \/ b.kind = "NaN" THEN NaN
  ELSE IF a.v <= b.v THEN a ELSE b

\* encodeURIComponent on the characters the model uses.
EncodeChar(c) == IF c = " " THEN <<"%", "2", "0">> ELSE <<c>>

RECURSIVE encodeURIComponent(_)
encodeURIComponent(s) ==
  IF s = <<>> THEN <<>> ELSE EncodeChar(Head(s)) \o encodeURIComponent(Tail(s))

\* What console.log prints for the limit option.
Display(opt) == IF opt.defined THEN opt.val ELSE <<"undefined">>

(* ------------------------------ constants ----------------------------- *)

TOP_HEADLINES_URL == "https://newsapi.org/v2/top-headlines"
SOURCES_URL == "https://newsapi.org/v2/sources"
SEARCH_URL == "https://newsapi.org/v2/everything"
API_KEY == "72ef587891b7421ab53dd1711732e327"

NoResultsLine == <<"\n No results found.">>
FetchFailMsg ==
  "There has been a problem fetching your news stories. Please try again later."
SourcesFailMsg ==
  "There has been a problem fetching your news sources. Please try again later."
RateLimitMsg ==
  "You have hit the rate limit on the News API. Please try again later."
SearchFailMsg ==
  "There has been a problem executing your search. Please try again later."

(* ------------------------------- inputs ------------------------------- *)

LimitChars == {"0", "1", "5", "-", "a"}

RECURSIVE StringsUpTo(_, _)
StringsUpTo(chars, n) ==
  IF n = 0 THEN {<<>>}
  ELSE LET shorter == StringsUpTo(chars, n - 1)
       IN shorter \cup {Append(s, c) : s \in shorter, c \in chars}

LimitOptions == {Undefined} \cup {Some(s) : s \in StringsUpTo(LimitChars, MaxLimitLen)}

SourceIds == {"bbc-news"}
CategoryOptions == {Undefined, Some("technology")}
Terms == {<<"a">>, <<"a", " ", "b">>}

Articles ==
  { [author |-> "Ann", title |-> "T1", description |-> "D1",
     url |-> "http://n/1", publishedAt |-> "2018-11-06T10:00:00Z"],
    [author |-> "null", title |-> "T2", description |-> "null",
     url |-> "http://n/2", publishedAt |-> "2018-11-07T09:30:00Z"] }

Sources ==
  { [id |-> "bbc-news", name |-> "BBC News", description |-> "BBC",
     url |-> "http://bbc", category |-> "general", language |-> "en",
     country |-> "gb"],
    [id |-> "wired", name |-> "Wired", description |-> "Wired",
     url |-> "http://wired", category |-> "technology", language |-> "en",
     country |-> "us"] }

RECURSIVE SeqsUpTo(_, _)
SeqsUpTo(S, n) ==
  IF n = 0 THEN {<<>>}
  ELSE LET shorter == SeqsUpTo(S, n - 1)
       IN shorter \cup {Append(s, x) : s \in shorter, x \in S}

ErrorStatuses == {403, 404, 500}

(* ------------------------------- gateway ------------------------------ *)

getLatestStoriesWrongUrl(source, lim) ==
  [url |-> SEARCH_URL,
   params |-> [apiKey |-> API_KEY, sources |-> <<source>>,
               pageSize |-> MathMin(Num(100), ToNumber(lim))]]

\* The request getLatestStories hands to axios.
getLatestStories(source, lim) ==
  [url |-> TOP_HEADLINES_URL,
   params |-> [apiKey |-> API_KEY, sources |-> <<source>>,
               pageSize |-> MathMin(Num(100), ToNumber(lim))]]

\* The request getNewsSources hands to axios.
getNewsSources(category) ==
  [url |-> SOURCES_URL,
   params |-> [apiKey |-> API_KEY, category |-> category]]

\* The request searchStories hands to axios.
searchStories(searchTerm) ==
  [url |-> SEARCH_URL,
   params |-> [apiKey |-> API_KEY, q |-> encodeURIComponent(searchTerm)]]

(* ------------------------------ presenter ----------------------------- *)

\* String(new Date(publishedAt)), which chalk.red(...) produces; the
\* .toLocaleString() that follows is the string's own and changes nothing.
DateToString(publishedAt) ==
  CASE publishedAt = "2018-11-06T10:00:00Z" -> "Tue Nov 06 2018 10:00:00 GMT+0000 (UTC)"
    [] publishedAt = "2018-11-07T09:30:00Z" -> "Wed Nov 07 2018 09:30:00 GMT+0000 (UTC)"
    [] OTHER -> "Invalid Date"

StoryBlock(a) ==
  << <<a.title>>,
     <<"by ", a.author>>,
     <<a.description>>,
     <<"Link:", " ", a.url>>,
     <<"Published", " ", DateToString(a.publishedAt), " \n">> >>

RECURSIVE StoryBlocks(_)
StoryBlocks(stories) ==
  IF stories = <<>> THEN <<>>
  ELSE StoryBlock(Head(stories)) \o StoryBlocks(Tail(stories))

RECURSIVE StoryBlocksReversed(_)
StoryBlocksReversed(stories) ==
  IF stories = <<>> THEN <<>>
  ELSE StoryBlocksReversed(Tail(stories)) \o StoryBlock(Head(stories))

printStoriesReversed(stories) ==
  IF Len(stories) = 0 THEN <<NoResultsLine>> ELSE StoryBlocksReversed(stories)

\* The lines printStories writes for a list of stories.
printStories(stories) ==
  IF Len(stories) = 0 THEN <<NoResultsLine>> ELSE StoryBlocks(stories)

SourceBlock(s) ==
  << <<s.name>>,
     <<"Fetch Id (use this to get stories)", ": ", s.id>>,
     <<s.description>>,
     <<"Website URL:", " ", s.url>>,
     <<"Language", " ", s.language>>,
     <<"Country", " ", s.country, " \n">> >>

\* The lines printSources writes for a list of sources.
RECURSIVE printSources(_)
printSources(sources) ==
  IF sources = <<>> THEN <<>>
  ELSE SourceBlock(Head(sources)) \o printSources(Tail(sources))

SourcesHeader(sources) ==
  <<"We currently support these ", ToString(Len(sources)), " news sources: \n">>

(* ---------------------------- error reporter -------------------------- *)

\* throwError(error, spinner): writes the message, then calls
\* spinner.stop(), which throws a TypeError when no spinner was passed.
throwError(error, spinnerArg, err, sp) ==
  [stderr |-> Append(err, <<"\n", error>>),
   spinner |-> IF spinnerArg.defined THEN "stopped" ELSE sp,
   threw |-> ~spinnerArg.defined]

searchMessageSwapped(status) ==
  IF status = 403 THEN SearchFailMsg ELSE RateLimitMsg

\* The message the search catch handler chooses for an HTTP status.
searchMessage(status) ==
  IF status = 403 THEN RateLimitMsg ELSE SearchFailMsg

(* ------------------------------- router ------------------------------- *)

HelpNeededAlways(programArgs) == Len(programArgs) >= 0

\* The condition of line 243: !program.args.length.
HelpNeeded(programArgs) == Len(programArgs) = 0

(* ------------------------------- state -------------------------------- *)

NoResponse == [kind |-> "pending", status |-> 0]

Init ==
  /\ pc = "start"
  /\ cmd = "unparsed"
  /\ limit = Undefined
  /\ args = <<>>
  /\ spinner = "none"
  /\ requests = <<>>
  /\ response = NoResponse
  /\ value = Undefined
  /\ stdout = <<>>
  /\ stderr = <<>>
  /\ helpPrinted = FALSE
  /\ unhandled = FALSE

(* --------------------------- command handlers ------------------------- *)

\* program.parse dispatches "fetch <source> [--limit]"; the handler starts
\* the spinner and issues the request; then line 243 is evaluated.
FetchAction ==
  /\ pc = "start"
  /\ \E source \in SourceIds, lim \in LimitOptions :
       /\ cmd' = "fetch"
       /\ limit' = lim
       /\ args' = <<source, "[Command]">>
       /\ requests' = Append(requests, getLatestStories(source, lim))
  /\ spinner' = "spinning"
  /\ helpPrinted' = HelpNeeded(args')
  /\ pc' = "pending"
  /\ UNCHANGED <<response, value, stdout, stderr, unhandled>>

\* program.parse dispatches "sources [--category]".
SourcesAction ==
  /\ pc = "start"
  /\ \E category \in CategoryOptions :
       requests' = Append(requests, getNewsSources(category))
  /\ cmd' = "sources"
  /\ args' = <<"[Command]">>
  /\ spinner' = "spinning"
  /\ helpPrinted' = HelpNeeded(args')
  /\ pc' = "pending"
  /\ UNCHANGED <<limit, response, value, stdout, stderr, unhandled>>

\* program.parse dispatches "search <term>".
SearchAction ==
  /\ pc = "start"
  /\ \E term \in Terms :
       /\ args' = <<"term", "[Command]">>
       /\ requests' = Append(requests, searchStories(term))
  /\ cmd' = "search"
  /\ spinner' = "spinning"
  /\ helpPrinted' = HelpNeeded(args')
  /\ pc' = "pending"
  /\ UNCHANGED <<limit, response, value, stdout, stderr, unhandled>>

\* No command on the command line: program.parse dispatches nothing.
NoCommand ==
  /\ pc = "start"
  /\ cmd' = "none"
  /\ args' = <<>>
  /\ helpPrinted' = HelpNeeded(args')
  /\ pc' = "done"
  /\ UNCHANGED <<limit, spinner, requests, response, value, stdout, stderr,
                 unhandled>>

(* ----------------------- the request's outcome ------------------------ *)

ItemsOf(c) == IF c = "sources" THEN Sources ELSE Articles

\* A 2xx response: the gateway function returns data.articles (or
\* data.sources), which is undefined when the body has no such field.
RespondOk ==
  /\ pc = "pending"
  /\ \E v \in {Undefined} \cup {Some(l) : l \in SeqsUpTo(ItemsOf(cmd), MaxItems)} :
       value' = v
  /\ response' = [kind |-> "ok", status |-> 200]
  /\ pc' = "fulfilled"
  /\ UNCHANGED <<cmd, limit, args, spinner, requests, stdout, stderr,
                 helpPrinted, unhandled>>

\* A non-2xx response: axios rejects with an error carrying the response.
RespondHttpError ==
  /\ pc = "pending"
  /\ \E s \in ErrorStatuses : response' = [kind |-> "http", status |-> s]
  /\ pc' = "rejected"
  /\ UNCHANGED <<cmd, limit, args, spinner, requests, value, stdout, stderr,
                 helpPrinted, unhandled>>

\* No response at all: axios rejects with an error that has no response.
RespondNoResponse ==
  /\ pc = "pending"
  /\ response' = [kind |-> "network", status |-> 0]
  /\ pc' = "rejected"
  /\ UNCHANGED <<cmd, limit, args, spinner, requests, value, stdout, stderr,
                 helpPrinted, unhandled>>

(* --------------------------- promise handlers ------------------------- *)

\* fetch .then: stop the spinner, print the limit, print the stories.
\* stories.length throws when stories is undefined; the chain's catch
\* handler then runs with that TypeError.
FetchThen ==
  /\ pc = "fulfilled" /\ cmd = "fetch"
  /\ spinner' = "stopped"
  /\ IF value.defined
       THEN /\ stdout' = Append(stdout, Display(limit)) \o printStories(value.val)
            /\ pc' = "done"
       ELSE /\ stdout' = Append(stdout, Display(limit))
            /\ pc' = "rejected"
  /\ UNCHANGED <<cmd, limit, args, requests, response, value, stderr,
                 helpPrinted, unhandled>>

\* fetch .catch: throwError(message, spinner).
FetchCatch ==
  /\ pc = "rejected" /\ cmd = "fetch"
  /\ LET r == throwError(FetchFailMsg, Some("spinner"), stderr, spinner)
     IN /\ stderr' = r.stderr
        /\ spinner' = r.spinner
        /\ unhandled' = r.threw
  /\ pc' = "done"
  /\ UNCHANGED <<cmd, limit, args, requests, response, value, stdout,
                 helpPrinted>>

\* sources .then: print the header and the sources, then stop the spinner.
\* sources.length throws, before anything is printed, when sources is
\* undefined.
SourcesThen ==
  /\ pc = "fulfilled" /\ cmd = "sources"
  /\ IF value.defined
       THEN /\ stdout' = Append(stdout, SourcesHeader(value.val))
                           \o printSources(value.val)
            /\ spinner' = "stopped"
            /\ pc' = "done"
       ELSE /\ pc' = "rejected"
            /\ UNCHANGED <<stdout, spinner>>
  /\ UNCHANGED <<cmd, limit, args, requests, response, value, stderr,
                 helpPrinted, unhandled>>

\* sources .catch: throwError(message) without a spinner, then
\* spinner.stop(), which is reached only if throwError returns.
SourcesCatch ==
  /\ pc = "rejected" /\ cmd = "sources"
  /\ LET r == throwError(SourcesFailMsg, Undefined, stderr, spinner)
     IN /\ stderr' = r.stderr
        /\ spinner' = IF r.threw THEN r.spinner ELSE "stopped"
        /\ unhandled' = r.threw
  /\ pc' = "done"
  /\ UNCHANGED <<cmd, limit, args, requests, response, value, stdout,
                 helpPrinted>>

\* search .then(printStories).
SearchPrint ==
  /\ pc = "fulfilled" /\ cmd = "search"
  /\ IF value.defined
       THEN /\ stdout' = stdout \o printStories(value.val)
            /\ pc' = "printed"
       ELSE /\ pc' = "rejected"
            /\ UNCHANGED stdout
  /\ UNCHANGED <<cmd, limit, args, spinner, requests, response, value, stderr,
                 helpPrinted, unhandled>>

\* search .then(() => spinner.stop()).
SearchStop ==
  /\ pc = "printed" /\ cmd = "search"
  /\ spinner' = "stopped"
  /\ pc' = "done"
  /\ UNCHANGED <<cmd, limit, args, requests, response, value, stdout, stderr,
                 helpPrinted, unhandled>>

\* search .catch: err.response.status throws when the error has no
\* response (a network failure, or a TypeError raised by printStories).
SearchCatch ==
  /\ pc = "rejected" /\ cmd = "search"
  /\ IF response.kind = "http"
       THEN LET r == throwError(searchMessage(response.status),
                                Some("spinner"), stderr, spinner)
            IN /\ stderr' = r.stderr
               /\ spinner' = r.spinner
               /\ unhandled' = r.threw
       ELSE /\ unhandled' = TRUE
            /\ UNCHANGED <<stderr, spinner>>
  /\ pc' = "done"
  /\ UNCHANGED <<cmd, limit, args, requests, response, value, stdout,
                 helpPrinted>>

Next ==
  \/ FetchAction
  \/ SourcesAction
  \/ SearchAction
  \/ NoCommand
  \/ RespondOk
  \/ RespondHttpError
  \/ RespondNoResponse
  \/ FetchThen
  \/ FetchCatch
  \/ SourcesThen
  \/ SourcesCatch
  \/ SearchPrint
  \/ SearchStop
  \/ SearchCatch

Spec == Init /\ [][Next]_vars

(* ------------------------------ properties ---------------------------- *)

Commands == {"fetch", "sources", "search"}

RequestFailed == response.kind \in {"http", "network"}

\* The presenter (printStories or printSources) has returned normally.
PresenterRan ==
  /\ value.defined
  /\ \/ cmd \in {"fetch", "sources"} /\ pc = "done"
     \/ cmd = "search" /\ pc \in {"printed", "done"}

\* The lines the presenter wrote: fetch prints the limit first and sources
\* prints its header first.
PresenterOutput == IF cmd \in {"fetch", "sources"} THEN Tail(stdout) ELSE stdout

\* C1: in every command, every kind of request failure ends with exactly
\* one failure message printed and no error escaping the failure handler.
C1_OneMessagePerFailure ==
  (pc = "done" /\ cmd \in Commands /\ RequestFailed)
    => (Len(stderr) = 1 /\ ~unhandled)

\* C2: in every command, once a request failure has been handled the
\* progress indicator is stopped.
C2_SpinnerStoppedAfterFailure ==
  (pc = "done" /\ cmd \in Commands /\ RequestFailed) => spinner = "stopped"

\* C3: search prints only the rate-limit message on HTTP 403 and only the
\* generic search-failure message on any other non-2xx response.
C3_SearchMessages ==
  (cmd = "search" /\ pc = "done" /\ response.kind = "http")
    => IF response.status = 403
         THEN stderr = << <<"\n", RateLimitMsg>> >>
         ELSE stderr = << <<"\n", SearchFailMsg>> >>

C3_Witness ==
  /\ cmd = "search" /\ pc = "done"
  /\ response = [kind |-> "http", status |-> 403]
  /\ stderr = << <<"\n", RateLimitMsg>> >>

EndpointOf(c) ==
  CASE c = "fetch" -> TOP_HEADLINES_URL
    [] c = "sources" -> SOURCES_URL
    [] c = "search" -> SEARCH_URL

\* C4: every fetch, sources or search invocation issues exactly one request,
\* to its own endpoint, whether the request succeeds or fails; no run ever
\* holds a second request.
C4_ExactlyOneRequest ==
  /\ Len(requests) <= 1
  /\ cmd \in Commands
       => (Len(requests) = 1 /\ requests[1].url = EndpointOf(cmd))

C4_Witness ==
  /\ cmd = "fetch" /\ pc = "done" /\ response.kind = "network"
  /\ Len(requests) = 1

RECURSIVE Pow10(_)
Pow10(k) == IF k = 0 THEN 1 ELSE 10 * Pow10(k - 1)

RECURSIVE PlaceSum(_, _)
PlaceSum(s, i) ==
  IF i > Len(s) THEN 0
  ELSE DigitVal(s[i]) * Pow10(Len(s) - i) + PlaceSum(s, i + 1)

PositiveIntegerLimit ==
  /\ limit.defined
  /\ limit.val # <<>>
  /\ \A i \in 1..Len(limit.val) : limit.val[i] \in Digits
  /\ PlaceSum(limit.val, 1) > 0

\* C5: for a provided positive integer limit, fetch's request carries
\* pageSize = min(100, limit): never above 100, and the limit itself when
\* the limit is at most 100.
C5_PageSizeCapped ==
  (cmd = "fetch" /\ PositiveIntegerLimit)
    => LET p == requests[1].params.pageSize
           n == PlaceSum(limit.val, 1)
       IN /\ p.kind = "num"
          /\ p.v <= 100
          /\ n <= 100 => p.v = n
          /\ n > 100 => p.v = 100

C5_Witness ==
  /\ cmd = "fetch"
  /\ limit = Some(<<"1", "5", "0">>)
  /\ requests[1].params.pageSize = Num(100)

\* C6: when fetch is invoked without --limit, the request carries no
\* pageSize value other than a valid positive integer.
C6_NoInvalidPageSize ==
  (cmd = "fetch" /\ ~limit.defined)
    => LET p == requests[1].params.pageSize
       IN p.kind = "num" /\ p.v >= 1

\* C7: for an empty sequence of articles or of sources the presenter's
\* output is exactly the single "no results" notice.
C7_EmptyRendersNoResults ==
  (cmd \in Commands /\ PresenterRan /\ value.val = <<>>)
    => PresenterOutput = <<NoResultsLine>>

\* C8: with no subcommand the help text is printed, no request is issued
\* and no spinner is started; the help text is printed only in that case.
C8_HelpOnlyWithoutCommand ==
  /\ cmd = "none"
       => (helpPrinted /\ requests = <<>> /\ spinner = "none" /\ pc = "done")
  /\ helpPrinted => cmd = "none"

C8_Witness == cmd = "none" /\ helpPrinted /\ requests = <<>>

\* C9: for a non-empty sequence of articles printStories writes one block
\* of five lines per article, in input order, block i holding the title,
\* author, url and publish date of article i.
C9_OneBlockPerArticle ==
  (cmd \in {"fetch", "search"} /\ PresenterRan /\ value.val # <<>>)
    => LET out == PresenterOutput
           s == value.val
       IN /\ Len(out) = 5 * Len(s)
          /\ \A i \in 1..Len(s) :
               LET b == 5 * (i - 1)
               IN /\ out[b + 1] = <<s[i].title>>
                  /\ out[b + 2][2] = s[i].author
                  /\ out[b + 4][3] = s[i].url
                  /\ out[b + 5][3] = DateToString(s[i].publishedAt)
                  /\ out[b + 5][3] # "Invalid Date"

C9_Witness ==
  /\ cmd = "search" /\ PresenterRan
  /\ Len(value.val) = 2
  /\ value.val[1] # value.val[2]
  /\ Len(stdout) = 10

Rendered == stdout # <<>>
Reported == stderr # <<>>

\* C10: every finished command run has reached exactly one of the two
\* terminal outcomes: Rendered (output printed) or Reported (failure
\* message printed), never both and never neither.
C10_ExactlyOneOutcome ==
  (pc = "done" /\ cmd \in Commands) => (Rendered # Reported)

====
